---- MODULE Spec2Model ----
(***************************************************************************)
(* Model of httplatency (src/src/lib.rs) and of its command line driver    *)
(* (src/src/bin/main.rs).                                                  *)
(*                                                                         *)
(* A string is a sequence of one-character strings, so that parsing,       *)
(* serialising and prefixing are computed character by character.          *)
(* The URL parser is the one lib.rs reaches through hyper's IntoUrl        *)
(* (url::Url with SchemeData::{Relative, NonRelative}); it is modelled on  *)
(* the alphabet of letters, digits, '.', '_', '-', ':' and '/'.  Userinfo, *)
(* query, fragment, IPv6 hosts, percent-encoding and dot-segments need     *)
(* characters outside this alphabet and are left out.                      *)
(***************************************************************************)
EXTENDS Integers, Sequences, FiniteSets, TLC

(***************************************************************************)
(* Characters                                                              *)
(***************************************************************************)
LowerSeq ==
  <<"a","b","c","d","e","f","g","h","i","j","k","l","m",
    "n","o","p","q","r","s","t","u","v","w","x","y","z">>

UpperSeq ==
  <<"A","B","C","D","E","F","G","H","I","J","K","L","M",
    "N","O","P","Q","R","S","T","U","V","W","X","Y","Z">>

DigitSeq == <<"0","1","2","3","4","5","6","7","8","9">>

IndexOf(c, s) == CHOOSE i \in 1..Len(s) : s[i] = c

IsLower(c) == \E i \in 1..Len(LowerSeq) : LowerSeq[i] = c

IsUpper(c) == \E i \in 1..Len(UpperSeq) : UpperSeq[i] = c

IsAlpha(c) == IsLower(c) \/ IsUpper(c)

IsDigit(c) == \E i \in 1..Len(DigitSeq) : DigitSeq[i] = c

DigitVal(c) == IndexOf(c, DigitSeq) - 1

ToLowerChar(c) == IF IsUpper(c) THEN LowerSeq[IndexOf(c, UpperSeq)] ELSE c

to_ascii_lowercase(s) == [i \in 1..Len(s) |-> ToLowerChar(s[i])]

AllDigits(s) == \A i \in 1..Len(s) : IsDigit(s[i])

StartsWith(s, p) == Len(s) >= Len(p) /\ SubSeq(s, 1, Len(p)) = p

Drop(s, n) == SubSeq(s, n + 1, Len(s))

\* index of the first character of s that is in stops, Len(s)+1 when none is
FindEnd(s, stops) ==
  IF \E i \in 1..Len(s) : s[i] \in stops
  THEN CHOOSE i \in 1..Len(s) :
         s[i] \in stops /\ \A j \in 1..(i - 1) : s[j] \notin stops
  ELSE Len(s) + 1

RECURSIVE StripZeros(_)
StripZeros(s) ==
  IF Len(s) > 1 /\ s[1] = "0" THEN StripZeros(Tail(s)) ELSE s

RECURSIVE DecVal(_)
DecVal(s) ==
  IF s = <<>> THEN 0
  ELSE DecVal(SubSeq(s, 1, Len(s) - 1)) * 10 + DigitVal(s[Len(s)])

RECURSIVE NatToStr(_)
NatToStr(n) ==
  IF n < 10 THEN <<DigitSeq[n + 1]>>
  ELSE NatToStr(n \div 10) \o <<DigitSeq[(n % 10) + 1]>>

\* s <= t for two digit strings of the same length
RECURSIVE DigitsLeq(_, _)
DigitsLeq(s, t) ==
  IF s = <<>> THEN TRUE
  ELSE IF DigitVal(s[1]) < DigitVal(t[1]) THEN TRUE
  ELSE IF DigitVal(s[1]) > DigitVal(t[1]) THEN FALSE
  ELSE DigitsLeq(Tail(s), Tail(t))

I32MaxDigits == <<"2","1","4","7","4","8","3","6","4","7">>

(***************************************************************************)
(* str::parse::<i32>(): an optional '-' and then one or more decimal       *)
(* digits, Err on anything else and on a value that does not fit 32 bits.  *)
(* (-2147483648, the one value whose magnitude does not fit, is outside    *)
(* the inputs and is given as Err.)                                        *)
(***************************************************************************)
ParseErr == [ok |-> FALSE, val |-> 0]

ParseOk(n) == [ok |-> TRUE, val |-> n]

parse_i32(s) ==
  LET neg  == Len(s) > 0 /\ s[1] = "-"
      body == IF neg THEN Tail(s) ELSE s
      sig  == StripZeros(body)
      fits == Len(sig) < Len(I32MaxDigits)
              \/ (Len(sig) = Len(I32MaxDigits) /\ DigitsLeq(sig, I32MaxDigits))
  IN  IF body = <<>> \/ ~AllDigits(body) \/ ~fits THEN ParseErr
      ELSE ParseOk(IF neg THEN 0 - DecVal(sig) ELSE DecVal(sig))

(***************************************************************************)
(* Strings the program names                                               *)
(***************************************************************************)
S_http == <<"h","t","t","p">>

S_https == <<"h","t","t","p","s">>

S_fake == <<"f","a","k","e">>

S_colon == <<":">>

S_sep == <<":","/","/">>

S_slash == <<"/">>

(***************************************************************************)
(* url::Url                                                                *)
(*   relative = TRUE  : scheme_data is Relative {host, port, path}         *)
(*   relative = FALSE : scheme_data is NonRelative(data)                   *)
(*   port = -1 stands for None                                             *)
(***************************************************************************)
RelativeUrl(scheme, host, port, path) ==
  [scheme |-> scheme, relative |-> TRUE, host |-> host, port |-> port,
   path |-> path, data |-> <<>>]

NonRelativeUrl(scheme, data) ==
  [scheme |-> scheme, relative |-> FALSE, host |-> <<>>, port |-> -1,
   path |-> <<>>, data |-> data]

UrlErr == [ok |-> FALSE, url |-> NonRelativeUrl(<<>>, <<>>)]

UrlOk(u) == [ok |-> TRUE, url |-> u]

\* url::whatwg_scheme_type_mapper: the default port of a relative scheme,
\* -1 for a non-relative one.  (file is FileLike; no input here names it.)
whatwg_scheme_type_mapper(scheme) ==
  CASE scheme = <<"f","t","p">>                 -> 21
    [] scheme = <<"g","o","p","h","e","r">>     -> 70
    [] scheme = S_http                          -> 80
    [] scheme = S_https                         -> 443
    [] scheme = <<"w","s">>                     -> 80
    [] scheme = <<"w","s","s">>                 -> 443
    [] OTHER                                    -> -1

SchemeChars == {"+", "-", "."}

IsSchemeChar(c) == IsAlpha(c) \/ IsDigit(c) \/ c \in SchemeChars

\* url::parser::parse_scheme: a letter, then scheme characters up to the
\* first ':'; the scheme is lower-cased.  None when the text does not start
\* with a letter, holds another character before the ':' or has no ':'.
parse_scheme(input) ==
  LET e == FindEnd(input, {":"})
  IN  IF input = <<>> \/ ~IsAlpha(input[1]) THEN [ok |-> FALSE, scheme |-> <<>>, rest |-> <<>>]
      ELSE IF e > Len(input) THEN [ok |-> FALSE, scheme |-> <<>>, rest |-> <<>>]
      ELSE IF \E i \in 1..(e - 1) : ~IsSchemeChar(input[i])
           THEN [ok |-> FALSE, scheme |-> <<>>, rest |-> <<>>]
      ELSE [ok |-> TRUE, scheme |-> to_ascii_lowercase(SubSeq(input, 1, e - 1)),
            rest |-> Drop(input, e)]

\* url::parser::skip_slashes: any run of slashes is skipped (a run other than
\* "//" is a non-fatal parse error)
skip_slashes(input) ==
  IF \E i \in 1..Len(input) : input[i] # "/"
  THEN Drop(input, (CHOOSE i \in 1..Len(input) :
                      input[i] # "/" /\ \A j \in 1..(i - 1) : input[j] = "/") - 1)
  ELSE <<>>

\* parse_port without the comparison to the scheme's default port
parse_port_keeps_default(input, default_port) ==
  LET e      == FindEnd(input, {"/"})
      digits == SubSeq(input, 1, e - 1)
      sig    == StripZeros(digits)
      rest   == Drop(input, e - 1)
  IN  IF ~AllDigits(digits) \/ Len(sig) > 5 THEN [ok |-> FALSE, port |-> -1, rest |-> rest]
      ELSE IF digits = <<>> THEN [ok |-> TRUE, port |-> -1, rest |-> rest]
      ELSE IF DecVal(sig) > 65535 THEN [ok |-> FALSE, port |-> -1, rest |-> rest]
      ELSE [ok |-> TRUE, port |-> DecVal(sig), rest |-> rest]

\* url::parser::parse_port: decimal digits up to the first '/', at most
\* 65535; no digit or the scheme's default port gives None
parse_port(input, default_port) ==
  LET e      == FindEnd(input, {"/"})
      digits == SubSeq(input, 1, e - 1)
      sig    == StripZeros(digits)
      rest   == Drop(input, e - 1)
  IN  IF ~AllDigits(digits) \/ Len(sig) > 5 THEN [ok |-> FALSE, port |-> -1, rest |-> rest]
      ELSE IF digits = <<>> THEN [ok |-> TRUE, port |-> -1, rest |-> rest]
      ELSE IF DecVal(sig) > 65535 THEN [ok |-> FALSE, port |-> -1, rest |-> rest]
      ELSE [ok |-> TRUE,
            port |-> IF DecVal(sig) = default_port THEN -1 ELSE DecVal(sig),
            rest |-> rest]

\* url::parser::parse_path: the segments between slashes
RECURSIVE parse_path(_)
parse_path(input) ==
  LET e == FindEnd(input, {"/"})
  IN  IF e > Len(input) THEN <<input>>
      ELSE <<SubSeq(input, 1, e - 1)>> \o parse_path(Drop(input, e))

\* url::parser::parse_path_start: one leading slash is not part of a segment
parse_path_start(input) ==
  IF input # <<>> /\ input[1] = "/" THEN parse_path(Tail(input))
  ELSE parse_path(input)

\* url::parser::parse_absolute_url: slashes, host (lower-cased, not empty),
\* optional ':' port, path
parse_absolute_url(scheme, default_port, input) ==
  LET rem1  == skip_slashes(input)
      e     == FindEnd(rem1, {":", "/"})
      host  == to_ascii_lowercase(SubSeq(rem1, 1, e - 1))
      rem2  == Drop(rem1, e - 1)
      hasP  == rem2 # <<>> /\ rem2[1] = ":"
      p     == IF hasP THEN parse_port(Tail(rem2), default_port)
               ELSE [ok |-> TRUE, port |-> -1, rest |-> rem2]
  IN  IF host = <<>> THEN UrlErr
      ELSE IF ~p.ok THEN UrlErr
      ELSE UrlOk(RelativeUrl(scheme, host, p.port, parse_path_start(p.rest)))

\* url::Url::parse, as reached by IntoUrl::into_url
into_url(input) ==
  LET s == parse_scheme(input)
      d == whatwg_scheme_type_mapper(s.scheme)
  IN  IF ~s.ok THEN UrlErr
      ELSE IF d # -1 THEN parse_absolute_url(s.scheme, d, s.rest)
      ELSE UrlOk(NonRelativeUrl(s.scheme, s.rest))

RECURSIVE SerializePath(_)
SerializePath(path) ==
  IF path = <<>> THEN <<>>
  ELSE S_slash \o Head(path) \o SerializePath(Tail(path))

\* url::Url::serialize
serialize(url) ==
  IF url.relative
  THEN url.scheme \o S_sep \o url.host
         \o (IF url.port = -1 THEN <<>> ELSE S_colon \o NatToStr(url.port))
         \o SerializePath(url.path)
  ELSE url.scheme \o S_colon \o url.data

(***************************************************************************)
(* The canonicalizer, src/src/lib.rs                                       *)
(***************************************************************************)
None == [tag |-> "None", val |-> <<>>]

Some(v) == [tag |-> "Some", val |-> v]

\* the call does not return: the thread panics
Panicked == [tag |-> "Panic", val |-> <<>>]

Builds == {"debug", "release"}

\* String::truncate(new_len): no effect when new_len is past the end
truncate(s, new_len) == IF new_len <= Len(s) THEN SubSeq(s, 1, new_len) ELSE s

\* lib.rs:132-158.  port.len()-1 is computed on usize: with a port text of
\* length 0 a build with overflow checks panics, a build without them wraps
\* to usize::MAX, a length past the end of the string.
canonicalize_http_url(url, build) ==
  IF url.scheme = S_http \/ url.scheme = S_https THEN Some(serialize(url))
  ELSE IF url.relative THEN None
  ELSE LET port == url.data
           r1   == parse_i32(port)
           p    == IF Len(port) = 0 THEN truncate(port, Len(port) + 1)
                   ELSE truncate(port, Len(port) - 1)
           r2   == parse_i32(p)
       IN  IF r1.ok /\ r1.val = 443 THEN Some(S_https \o S_sep \o serialize(url))
           ELSE IF r1.ok THEN Some(S_http \o S_sep \o serialize(url))
           ELSE IF Len(port) = 0 /\ build = "debug" THEN Panicked
           ELSE IF r2.ok /\ r2.val = 443 THEN Some(S_https \o S_sep \o serialize(url))
           ELSE IF r2.ok THEN Some(S_http \o S_sep \o serialize(url))
           ELSE Some(S_http \o serialize(url))

\* lib.rs:102-130
canonicalize_http_address(s, build) ==
  LET first == into_url(s)
      v     == into_url(S_fake \o S_sep \o s)
  IN  IF first.ok THEN canonicalize_http_url(first.url, build)
      ELSE IF v.ok
           THEN canonicalize_http_url([v.url EXCEPT !.scheme = <<>>], build)
           ELSE None

(***************************************************************************)
(* Inputs: a raw address is put together from a scheme prefix (or none),   *)
(* a host, a port text (or none) and a tail of path segments.  The parts   *)
(* are kept beside the text: they say what the writer of the address       *)
(* meant, which the text alone does not.                                   *)
(***************************************************************************)
MaxTail == 2

SchemeNames ==
  { S_http, <<"H","T","T","P">>, S_https, <<"h","T","T","p","s">>,
    <<"f","t","p">>, <<"F","T","P">>, <<"s","s","h">> }

Slashes == { <<>>, <<"/","/">> }

Hosts == { <<"w",".","c">>, <<"W",".","c">>, <<"4","u">>, <<"a","_","b">>, <<>> }

PortTexts ==
  { <<>>, <<"4","4","3">>, <<"8","0">>, <<"8","0","8","0">>, <<"2","1">>,
    <<"x">>, <<"4","4","3","x">>, <<"9","9","9","9","9">> }

Segments == { <<>>, <<"p">> }

RECURSIVE TailsOf(_)
TailsOf(n) ==
  IF n = 0 THEN { <<>> }
  ELSE TailsOf(n - 1)
         \cup { t \o S_slash \o g : t \in TailsOf(n - 1), g \in Segments }

NoScheme == <<"-">>

Parts ==
  [ scheme : SchemeNames \cup {NoScheme},
    slashes : Slashes,
    host : Hosts,
    hasPort : BOOLEAN,
    port : PortTexts,
    tail : TailsOf(MaxTail) ]

WellFormedParts(q) ==
  /\ (q.scheme = NoScheme => q.slashes = <<>>)
  /\ (~q.hasPort => q.port = <<>>)

TextOf(q) ==
  (IF q.scheme = NoScheme THEN <<>> ELSE q.scheme \o S_colon \o q.slashes)
    \o q.host
    \o (IF q.hasPort THEN S_colon \o q.port ELSE <<>>)
    \o q.tail

NoParts ==
  [scheme |-> NoScheme, slashes |-> <<>>, host |-> <<>>, hasPort |-> FALSE,
   port |-> <<>>, tail |-> <<>>]

(***************************************************************************)
(* The lines an input file may hold, and the run's environment             *)
(***************************************************************************)
MaxUrls == 3

PipelineInputs ==
  { <<"w",".","c">>,
    <<"h","t","t","p","s",":","/","/","w",".","c",":","4","4","3">>,
    <<"f","t","p",":","/","/","w",".","c">>,
    <<"w",".","c",":","x">>,
    <<"w",".","c",":">> }

Files == UNION { [1..n -> PipelineInputs] : n \in 0..MaxUrls }

Latencies == {0, 12}

Banner == "HTTP(S) Latency tool"

ExitingMsg == "Exiting.."

UsageMsg == "Usage: FILE [options]"

Running == -1

PanicCode == 101

(***************************************************************************)
(* State                                                                   *)
(***************************************************************************)
VARIABLES
  build,      \* how the program was built: with or without overflow checks
  parts,      \* the parts of the address given to the canonicalizer
  raw,        \* its text
  pass,       \* how many times the canonicalizer has been applied
  out1,       \* canonicalize_http_address(raw)
  out2,       \* canonicalize_http_address of out1's address
  out3,       \* canonicalize_http_address of out2's address
  pc,         \* where the process is
  file,       \* the lines of the input file
  inputRead,  \* "pending", "ok" or "failed"
  urls,       \* the lines get_urls returned
  idx,        \* the line the iterator chain of save_latencies is at
  requests,   \* the GET requests issued so far: [src, url]
  probe,      \* state of the latest probe
  results,    \* the records collected: [url, latency_ms, src], src the line
  writeResult,\* "pending", "ok", "create_failed" or "write_failed"
  output,     \* the output file: "none", "created" or "written"
  outFile,    \* the records in the output file
  stdout,     \* the lines printed
  log,        \* the error! events emitted
  exitCode    \* the exit status, Running while the process runs

canonVars == <<parts, raw, pass, out1, out2, out3>>

pipeVars ==
  <<pc, file, inputRead, urls, idx, requests, probe, results, writeResult,
    output, outFile, stdout, log, exitCode>>

vars ==
  <<build, parts, raw, pass, out1, out2, out3, pc, file, inputRead, urls,
    idx, requests, probe, results, writeResult, output, outFile, stdout,
    log, exitCode>>

CanonIdle ==
  /\ parts = NoParts
  /\ raw = <<>>
  /\ pass = 0
  /\ out1 = None
  /\ out2 = None
  /\ out3 = None

PipeStart(p, f) ==
  /\ pc = p
  /\ file = f
  /\ inputRead = "pending"
  /\ urls = <<>>
  /\ idx = 1
  /\ requests = <<>>
  /\ probe = "none"
  /\ results = <<>>
  /\ writeResult = "pending"
  /\ output = "none"
  /\ outFile = <<>>
  /\ stdout = <<>>
  /\ log = {}
  /\ exitCode = Running

(***************************************************************************)
(* The canonicalizer applied to one address, and again to its own output   *)
(***************************************************************************)
CanonInit ==
  /\ build \in Builds
  /\ parts \in { q \in Parts : WellFormedParts(q) }
  /\ raw = TextOf(parts)
  /\ pass = 0
  /\ out1 = None
  /\ out2 = None
  /\ out3 = None
  /\ PipeStart("idle", <<>>)

Canonicalize ==
  /\ pc = "idle"
  /\ pass = 0
  /\ out1' = canonicalize_http_address(raw, build)
  /\ pass' = 1
  /\ UNCHANGED <<build, parts, raw, out2, out3, pipeVars>>

Recanonicalize ==
  /\ pc = "idle"
  /\ pass = 1
  /\ out1.tag = "Some"
  /\ out2' = canonicalize_http_address(out1.val, build)
  /\ pass' = 2
  /\ UNCHANGED <<build, parts, raw, out1, out3, pipeVars>>

RecanonicalizeAgain ==
  /\ pc = "idle"
  /\ pass = 2
  /\ out2.tag = "Some"
  /\ out3' = canonicalize_http_address(out2.val, build)
  /\ pass' = 3
  /\ UNCHANGED <<build, parts, raw, out1, out2, pipeVars>>

CanonNext == Canonicalize \/ Recanonicalize \/ RecanonicalizeAgain

CanonSpec == CanonInit /\ [][CanonNext]_vars

(***************************************************************************)
(* The process: main, get_args, save_latencies, get_urls                   *)
(***************************************************************************)
Init ==
  /\ build \in Builds
  /\ CanonIdle
  /\ \E f \in Files : PipeStart("main", f)

\* the process ends with status code
Exit(code) ==
  /\ pc' = "exited"
  /\ exitCode' = code

\* main.rs:28-31: the logger cannot be set up, main panics
MainLoggerError ==
  /\ pc = "main"
  /\ Exit(PanicCode)
  /\ UNCHANGED <<build, canonVars, file, inputRead, urls, idx, requests, probe,
                 results, writeResult, output, outFile, stdout, log>>

\* main.rs:28-34
MainStart ==
  /\ pc = "main"
  /\ stdout' = Append(stdout, Banner)
  /\ pc' = "get_args"
  /\ UNCHANGED <<build, canonVars, file, inputRead, urls, idx, requests, probe,
                 results, writeResult, output, outFile, log, exitCode>>

ArgOutcomes == {"ok", "help", "no_input", "bad_option"}

\* main.rs:45-70
GetArgs(a) ==
  /\ pc = "get_args"
  /\ CASE a = "ok"         -> pc' = "save_latencies" /\ UNCHANGED <<stdout, exitCode>>
       [] a = "help"       -> stdout' = Append(stdout, UsageMsg) /\ Exit(0)
       [] a = "no_input"   -> stdout' = Append(stdout, UsageMsg) /\ Exit(1)
       [] a = "bad_option" -> UNCHANGED stdout /\ Exit(PanicCode)
  /\ UNCHANGED <<build, canonVars, file, inputRead, urls, idx, requests, probe,
                 results, writeResult, output, outFile, log>>

ReadOutcomes == {"ok", "open_failed", "line_failed"}

\* main.rs:85-91 with get_urls, main.rs:118-122: the file cannot be opened
\* (process::exit(1)) or a line cannot be read (l.unwrap() panics)
GetUrls(r) ==
  /\ pc = "save_latencies"
  /\ CASE r = "ok" ->
            /\ urls' = file
            /\ inputRead' = "ok"
            /\ pc' = "iterate"
            /\ UNCHANGED <<log, exitCode>>
       [] r = "open_failed" ->
            /\ inputRead' = "failed"
            /\ log' = log \cup {"Unable to open file"}
            /\ Exit(1)
            /\ UNCHANGED urls
       [] r = "line_failed" ->
            /\ inputRead' = "failed"
            /\ Exit(PanicCode)
            /\ UNCHANGED <<urls, log>>
  /\ UNCHANGED <<build, canonVars, file, idx, requests, probe, results,
                 writeResult, output, outFile, stdout>>

\* the line itself, taken as canonical without the canonicalizer
CanonicalUnchecked(i) == Some(urls[i])

\* what the iterator chain of main.rs:92-97 gets for the line it is at
Canonical(i) == canonicalize_http_address(urls[i], build)

\* main.rs:93-94: the canonicalizer gives None, the line is filtered out
IterateRejected ==
  /\ pc = "iterate"
  /\ idx <= Len(urls)
  /\ Canonical(idx) = None
  /\ idx' = idx + 1
  /\ UNCHANGED <<build, canonVars, pc, file, inputRead, urls, requests, probe,
                 results, writeResult, output, outFile, stdout, log, exitCode>>

\* main.rs:93: the canonicalizer panics, and the process with it
IteratePanic ==
  /\ pc = "iterate"
  /\ idx <= Len(urls)
  /\ Canonical(idx) = Panicked
  /\ Exit(PanicCode)
  /\ UNCHANGED <<build, canonVars, file, inputRead, urls, idx, requests, probe,
                 results, writeResult, output, outFile, stdout, log>>

\* IterateRequest that does not wait for the pending probe to resolve
IterateRequestNoWait ==
  /\ pc \in {"iterate", "probing"}
  /\ idx <= Len(urls)
  /\ Canonical(idx).tag = "Some"
  /\ requests' = Append(requests, [src |-> idx, url |-> Canonical(idx).val])
  /\ probe' = "pending"
  /\ pc' = "probing"
  /\ UNCHANGED <<build, canonVars, file, inputRead, urls, idx, results,
                 writeResult, output, outFile, stdout, log, exitCode>>

\* main.rs:93-95, lib.rs:263-265, 225-227, 174-185: the canonical address
\* goes to get_latency, whose fetch_url sends the GET and blocks
IterateRequest ==
  /\ pc = "iterate"
  /\ idx <= Len(urls)
  /\ Canonical(idx).tag = "Some"
  /\ requests' = Append(requests, [src |-> idx, url |-> Canonical(idx).val])
  /\ probe' = "pending"
  /\ pc' = "probing"
  /\ UNCHANGED <<build, canonVars, file, inputRead, urls, idx, results,
                 writeResult, output, outFile, stdout, log, exitCode>>

\* hyper's client sends to an http or https URL with a host
HyperAccepts(url) ==
  LET u == into_url(url)
  IN  u.ok /\ u.url.relative /\ (u.url.scheme = S_http \/ u.url.scheme = S_https)

PushFront(rs, rec) == <<rec>> \o rs

\* main.rs:96-97: filter_map and collect keep the record at the end
PushResult(rs, rec) == Append(rs, rec)

\* lib.rs:185, 228-229, 266-267: send() gave a response; record_latency
\* returns Ok, get_latency Some
ProbeSuccess(ms) ==
  /\ pc = "probing"
  /\ HyperAccepts(requests[Len(requests)].url)
  /\ results' = PushResult(results, [url |-> requests[Len(requests)].url,
                                     latency_ms |-> ms, src |-> idx])
  /\ probe' = "ok"
  /\ idx' = idx + 1
  /\ pc' = "iterate"
  /\ UNCHANGED <<build, canonVars, file, inputRead, urls, requests,
                 writeResult, output, outFile, stdout, log, exitCode>>

\* lib.rs:185: send() gave Err (the URL is not one hyper sends to, or the
\* transport failed) and unwrap() panics
ProbeError ==
  /\ pc = "probing"
  /\ probe' = IF HyperAccepts(requests[Len(requests)].url)
              THEN "transport_failure" ELSE "invalid_url"
  /\ Exit(PanicCode)
  /\ UNCHANGED <<build, canonVars, file, inputRead, urls, idx, requests,
                 results, writeResult, output, outFile, stdout, log>>

WriteOutcomes == {"ok", "create_failed", "write_failed"}

MainReportAlways(w) == <<ExitingMsg>>

\* main.rs:35-38: what main prints for the result of save_latencies
MainReport(w) == IF w = "ok" THEN <<ExitingMsg>> ELSE <<>>

\* main.rs:98-106 and 35-39: every line is done; the file is created and
\* written, main reports and returns
WriteOutput(w) ==
  /\ pc = "iterate"
  /\ idx > Len(urls)
  /\ writeResult' = w
  /\ output' = CASE w = "ok" -> "written"
                 [] w = "write_failed" -> "created"
                 [] w = "create_failed" -> output
  /\ outFile' = IF w = "ok" THEN results ELSE outFile
  /\ stdout' = stdout \o MainReport(w)
  /\ log' = IF w = "ok" THEN log ELSE log \cup {"Error writing to file!"}
  /\ Exit(0)
  /\ UNCHANGED <<build, canonVars, file, inputRead, urls, idx, requests, probe,
                 results>>

Next ==
  \/ MainLoggerError
  \/ MainStart
  \/ \E a \in ArgOutcomes : GetArgs(a)
  \/ \E r \in ReadOutcomes : GetUrls(r)
  \/ IterateRejected
  \/ IteratePanic
  \/ IterateRequest
  \/ \E ms \in Latencies : ProbeSuccess(ms)
  \/ ProbeError
  \/ \E w \in WriteOutcomes : WriteOutput(w)

Spec == Init /\ [][Next]_vars

(***************************************************************************)
(* Properties of the process                                               *)
(***************************************************************************)
ProbeFailed == probe = "transport_failure" \/ probe = "invalid_url"

\* C1: when the GET of a canonical address fails at transport level, the
\* probe gives no record and the process is not aborted by it.
C1_TransportFailureIsSoft ==
  probe = "transport_failure" => (exitCode # PanicCode /\ pc # "exited")

\* C2: a run whose input was read, whose canonicalizer returned for every
\* line and whose output destination is writable ends with every line
\* processed and the output written, whatever the probes did.
C2_RunWritesOutput ==
  ( /\ pc = "exited"
    /\ inputRead = "ok"
    /\ writeResult \notin {"create_failed", "write_failed"}
    /\ probe # "invalid_url"
    /\ \A i \in 1..Len(urls) : Canonical(i) # Panicked )
  => (output = "written" /\ idx > Len(urls))

\* recs holds at most one record per line, in the order of the lines, each
\* with the address the canonicalizer gave for its line
OrderedSubsequence(recs) ==
  \A k \in 1..Len(recs) :
    /\ recs[k].src \in 1..Len(urls)
    /\ Canonical(recs[k].src) = Some(recs[k].url)
    /\ \A j \in 1..(k - 1) : recs[j].src < recs[k].src

\* C3: the records, collected and written, are an order-preserving
\* sub-sequence of the input lines: at most one record per line, records in
\* the order of their lines, none for a rejected line or a failed probe.
C3_OutputIsOrderedSubsequence ==
  /\ OrderedSubsequence(results)
  /\ OrderedSubsequence(outFile)
  /\ (output = "written" => outFile = results)
  /\ (ProbeFailed => \A k \in 1..Len(results) : results[k].src # idx)

\* C3 witness: a written output of two records, the lines 1 and 3 of a
\* file whose line 2 gave none
C3_Witness ==
  /\ output = "written"
  /\ Len(urls) = 3
  /\ Len(outFile) = 2
  /\ outFile[1].src = 1
  /\ outFile[2].src = 3

SuccessfulRunObserved == exitCode = 0 /\ stdout = <<Banner, ExitingMsg>>

\* C9: when the input cannot be read the run ends in failure with no
\* request issued and no output written; when the output cannot be written
\* what the caller observes (exit status and printed lines) differs from
\* what it observes of a run that wrote its output.
C9_FatalEnvironmentFailure ==
  /\ (inputRead = "failed" =>
        /\ pc = "exited"
        /\ exitCode \notin {Running, 0}
        /\ requests = <<>>
        /\ output = "none")
  /\ (writeResult \in {"create_failed", "write_failed"} =>
        /\ pc = "exited"
        /\ output # "written"
        /\ ~SuccessfulRunObserved)
  /\ (writeResult = "ok" => SuccessfulRunObserved)

\* C9 witness: the output could not be created after a probe had succeeded
C9_Witness ==
  /\ pc = "exited"
  /\ writeResult = "create_failed"
  /\ Len(results) >= 1

(***************************************************************************)
(* Properties of the canonicalizer                                         *)
(***************************************************************************)
SchemeOf(q) == to_ascii_lowercase(q.scheme)

IsHttpScheme(q) ==
  q.scheme # NoScheme /\ (SchemeOf(q) = S_http \/ SchemeOf(q) = S_https)

NumericPort(q) == q.hasPort => (q.port # <<>> /\ AllDigits(q.port))

HasHttpPrefix(t) ==
  StartsWith(t, S_http \o S_sep) \/ StartsWith(t, S_https \o S_sep)

\* C4: an address with an explicit scheme other than http and https and
\* with any port is rejected (stated for the addresses written with "//"
\* after the colon, which no reading takes for host:port).
C4_ForeignSchemeRejected ==
  ( /\ pass >= 1
    /\ parts.scheme # NoScheme
    /\ ~IsHttpScheme(parts)
    /\ parts.slashes = <<"/","/">>
    /\ parts.host # <<>> )
  => out1 = None

\* C5: a schemeless address (host, host:port, with or without a trailing
\* slash or a path) gives "<scheme>://" followed by the input text, the
\* scheme being https when the port is exactly 443 and http otherwise.
C5_SchemelessInference ==
  ( /\ pass >= 1
    /\ parts.scheme = NoScheme
    /\ parts.host # <<>>
    /\ NumericPort(parts) )
  => out1 = Some((IF parts.hasPort /\ parts.port = <<"4","4","3">>
                  THEN S_https ELSE S_http) \o S_sep \o raw)

\* C6: every address the canonicalizer returns begins with "http://" or
\* with "https://".
C6_ResultHasHttpPrefix ==
  (pass >= 1 /\ out1.tag = "Some") => HasHttpPrefix(out1.val)

\* the address names no port that its scheme would leave out
NoDefaultPort(q) ==
  q.hasPort => (q.port # <<"8","0">> /\ q.port # <<"4","4","3">>)

\* C7: canonicalizing a returned address y gives y or y with "/" appended,
\* and canonicalizing that once more gives it back unchanged (stated for
\* the addresses with a host and with no port or a numeric port other than
\* 80 and 443).
C7_Idempotence ==
  LET covered == parts.host # <<>> /\ NumericPort(parts) /\ NoDefaultPort(parts)
  IN  /\ (pass >= 2 /\ covered =>
             /\ out2.tag = "Some"
             /\ (out2.val = out1.val \/ out2.val = out1.val \o S_slash))
      /\ (pass >= 3 /\ covered => out3 = out2)

\* C8: an address with an explicit http:// or https:// scheme, in any
\* letter case and with any port, is accepted and keeps its scheme, in
\* lower case.
C8_SchemePreserved ==
  ( /\ pass >= 1
    /\ IsHttpScheme(parts)
    /\ parts.slashes = <<"/","/">>
    /\ parts.host # <<>>
    /\ NumericPort(parts) )
  => ( /\ out1.tag = "Some"
       /\ StartsWith(out1.val, SchemeOf(parts) \o S_sep) )

\* the text after the first colon of a schemeless host:port address
PortTextOf(q) == q.port \o q.tail

\* C10: for a schemeless address whose port text is not an integer, one
\* trailing character is stripped and the parse retried once: 443 gives an
\* https address, another integer an http address, and a failed retry
\* gives the http address of the text as it is.
C10_MalformedPortRecovery ==
  ( /\ pass >= 1
    /\ parts.scheme = NoScheme
    /\ parts.host # <<>>
    /\ parts.hasPort
    /\ PortTextOf(parts) # <<>>
    /\ ~parse_i32(PortTextOf(parts)).ok )
  => LET pt    == PortTextOf(parts)
         retry == parse_i32(SubSeq(pt, 1, Len(pt) - 1))
     IN  /\ out1.tag = "Some"
         /\ (retry.ok /\ retry.val = 443 => StartsWith(out1.val, S_https \o S_sep))
         /\ (retry.ok /\ retry.val # 443 => StartsWith(out1.val, S_http \o S_sep))
         /\ (~retry.ok => out1.val = S_http \o S_sep \o raw)

\* the port text is empty or a decimal number of at most 65535
PortInRange(q) ==
  q.hasPort /\ q.port # <<>> =>
    /\ AllDigits(q.port)
    /\ Len(StripZeros(q.port)) <= 5
    /\ DecVal(StripZeros(q.port)) <= 65535

\* an address with an explicit http or https scheme that parses as a URL
ExplicitHttpUrl(q) == IsHttpScheme(q) /\ q.host # <<>> /\ PortInRange(q)

DefaultPortText(q) ==
  IF SchemeOf(q) = S_https THEN <<"4","4","3">> ELSE <<"8","0">>

\* the normalized address of q with the text host for its host
NormalizedWithHost(q, host) ==
  SchemeOf(q) \o S_sep \o host
    \o (IF q.hasPort /\ q.port # <<>> /\ q.port # DefaultPortText(q)
        THEN S_colon \o q.port ELSE <<>>)
    \o (IF q.tail = <<>> THEN S_slash ELSE q.tail)

\* q with a root path when it has no path, with the default port when it
\* names no port
WithRootPath(q) == IF q.tail = <<>> THEN [q EXCEPT !.tail = S_slash] ELSE q

WithDefaultPort(q) ==
  IF q.hasPort THEN q
  ELSE [q EXCEPT !.hasPort = TRUE, !.port = DefaultPortText(q)]

SameAsVariants(q) ==
  /\ canonicalize_http_address(TextOf(WithRootPath(q)), build) = out1
  /\ canonicalize_http_address(TextOf(WithDefaultPort(q)), build) = out1

Probed(i) == i < idx \/ (i = idx /\ (pc = "probing" \/ ProbeFailed))

RequestsFor(i) == { k \in 1..Len(requests) : requests[k].src = i }

SequentialProbes ==
  /\ \A k \in 1..Len(requests) :
       \A j \in 1..(k - 1) : requests[j].src < requests[k].src
  /\ \A k \in 1..(Len(requests) - 1) :
       \E n \in 1..Len(results) : results[n].src = requests[k].src
  /\ (probe = "pending" <=> pc = "probing")
  /\ (pc = "probing" => Len(requests) >= 1 /\ requests[Len(requests)].src = idx)
  /\ \A i \in 1..Len(urls) :
       Cardinality(RequestsFor(i)) =
         IF Probed(i) /\ Canonical(i).tag = "Some" THEN 1 ELSE 0

\* while a probe is pending nothing happens but its resolution
PendingProbeBlocks ==
  probe = "pending" =>
    /\ requests' = requests
    /\ (probe' = "pending" => UNCHANGED vars)

\* C12: requests are issued one at a time in the order of the lines: a
\* request is issued only when every earlier one has resolved, each line
\* handed to the prober is requested exactly once, and while a probe is
\* pending no other line is handled.
C12_ProbesAreSequential == []SequentialProbes /\ [][PendingProbeBlocks]_vars

\* C12 witness: the second request is pending, the first has resolved
C12_Witness ==
  /\ pc = "probing"
  /\ Len(requests) = 2
  /\ Len(results) = 1

\* C13: canonicalize_http_address returns Some or None for every address,
\* also for one whose text after the first colon is empty.
C13_CanonicalizeIsTotal ==
  pass >= 1 => (out1.tag = "Some" \/ out1.tag = "None")

\* the address is what canonicalize_http_address returned for line i
IsCanonicalOf(url, i) ==
  /\ i \in 1..Len(urls)
  /\ canonicalize_http_address(urls[i], build) = Some(url)

\* C14: no request is issued for a line the canonicalizer rejected, every
\* request goes to exactly the address the canonicalizer returned for its
\* line, and the url of every record, collected or written, is that address.
C14_RequestsAreCanonical ==
  /\ \A k \in 1..Len(requests) : IsCanonicalOf(requests[k].url, requests[k].src)
  /\ \A n \in 1..Len(results) :
       /\ IsCanonicalOf(results[n].url, results[n].src)
       /\ \E k \in 1..Len(requests) :
            requests[k].src = results[n].src /\ requests[k].url = results[n].url
  /\ \A n \in 1..Len(outFile) : IsCanonicalOf(outFile[n].url, outFile[n].src)

\* C14 witness: an output written from a file with a rejected line and a
\* line that the canonicalizer changed
C14_Witness ==
  /\ output = "written"
  /\ \E i \in 1..Len(urls) : canonicalize_http_address(urls[i], build) = None
  /\ \E n \in 1..Len(outFile) : outFile[n].url # urls[outFile[n].src]

====
